---- MODULE Spec2Model ----
(***************************************************************************)
(* Model of src/server.js: an express application whose six handlers each  *)
(* borrow one connection of a bounded MariaDB pool, run their SQL          *)
(* statements one after another on it, answer the caller and give the      *)
(* connection back in a finally block.                                     *)
(*                                                                         *)
(* A handler suspends only at an await (pool.getConnection, conn.query);   *)
(* everything between two awaits runs without interruption on node's       *)
(* single thread.  Each action below is therefore one resumption of one    *)
(* handler: the statement awaited takes effect at the store, and the code  *)
(* after it runs up to the next await or to the end of the handler,        *)
(* catch and finally included.                                             *)
(*                                                                         *)
(* Time is counted in hours of the store's clock, NOW().  The tables are   *)
(* sets of rows: SQL keeps no order of its own, and rows that tie under an *)
(* ORDER BY may come back in any order.  Requests are numbered in order of  *)
(* arrival.  Each inserted row carries the number of the request that      *)
(* inserted it and the index of the insert within the request (req, k);    *)
(* these label rows for the properties and are no column any statement     *)
(* reads.                                                                  *)
(***************************************************************************)
EXTENDS Integers, Sequences, FiniteSets, TLC

VARIABLES now, sensor_logs, compartment_status, medication_schedule,
          poolActive, req

vars == <<now, sensor_logs, compartment_status, medication_schedule,
          poolActive, req>>

store == <<sensor_logs, compartment_status, medication_schedule>>

----------------------------------------------------------------------------
(* Bounds of the model *)

MaxRequests == 2
MaxSensorRequests == 2
MaxScheduleRequests == 2
MaxPoolRequests == 6
MaxReports == 2
MaxBurstRequests == 6
MaxCompartmentRequests == 2
MaxCompletionRequests == 3
MaxConcurrentRequests == 3

(* Program constants *)

connectionLimit == 5
LatestSensorLimit == 1
LatestCompartmentLimit == 4
HistoryHours == 24

(* Inputs *)

BoxIds == {"box1", "box2"}
Temperatures == {22}
Humidities == {40}
Instants == {0, HistoryHours, HistoryHours + 1}
MissingScheduleId == 9

Compartment(id, isOpen) == [type |-> "object", id |-> id, isOpen |-> isOpen]
NullElement == [type |-> "null", id |-> 0, isOpen |-> FALSE]

CompartmentStatusInputs ==
    { [type |-> "undefined", items |-> <<>>],
      [type |-> "string", items |-> <<>>],
      [type |-> "array", items |-> <<Compartment(1, FALSE)>>],
      [type |-> "array", items |-> <<Compartment(1, TRUE), Compartment(2, FALSE)>>],
      [type |-> "array", items |-> <<Compartment(2, TRUE), NullElement>>] }

NoBody == [none |-> TRUE]
NoResponse == [status |-> 0]
Null == [null |-> TRUE]

----------------------------------------------------------------------------
(* The store's answers *)

\* The rows of S that no other row of S precedes when ordered by a column.
First(S, column, desc) ==
    { x \in S : \A y \in S : IF desc THEN y[column] <= x[column]
                                      ELSE y[column] >= x[column] }

\* ORDER BY column [DESC]: every sequence of all rows of S in which the column is
\* ordered; rows with equal values come in any order.
RECURSIVE OrderBy(_, _, _)
OrderBy(S, column, desc) ==
    IF S = {} THEN { <<>> }
    ELSE UNION { { <<x>> \o t : t \in OrderBy(S \ {x}, column, desc) } :
                 x \in First(S, column, desc) }

\* LIMIT n
Limit(s, n) == SubSeq(s, 1, IF Len(s) < n THEN Len(s) ELSE n)

\* (as SelectLatestSensor, ordered ASC)
SelectOldestSensor(boxId) ==
    { Limit(s, LatestSensorLimit) :
        s \in OrderBy({ x \in sensor_logs : x.box_id = boxId }, "timestamp", FALSE) }

\* SELECT * FROM sensor_logs WHERE box_id = ? ORDER BY timestamp DESC LIMIT 1
SelectLatestSensor(boxId) ==
    { Limit(s, LatestSensorLimit) :
        s \in OrderBy({ x \in sensor_logs : x.box_id = boxId }, "timestamp", TRUE) }

\* (as SelectLatestCompartments, without WHERE box_id = ?)
SelectLatestCompartmentsOfAnyBox(boxId) ==
    { Limit(s, LatestCompartmentLimit) : s \in OrderBy(compartment_status, "timestamp", TRUE) }

\* (as SelectLatestCompartments, ordered ASC)
SelectOldestCompartments(boxId) ==
    { Limit(s, LatestCompartmentLimit) :
        s \in OrderBy({ x \in compartment_status : x.box_id = boxId }, "timestamp", FALSE) }

\* SELECT * FROM compartment_status WHERE box_id = ? ORDER BY timestamp DESC LIMIT 4
SelectLatestCompartments(boxId) ==
    { Limit(s, LatestCompartmentLimit) :
        s \in OrderBy({ x \in compartment_status : x.box_id = boxId }, "timestamp", TRUE) }

\* (as InHistoryWindow, with >= for >)
InHistoryWindowInclusive(row, boxId) ==
    row.box_id = boxId /\ row.timestamp >= now - HistoryHours

\* WHERE box_id = ? AND timestamp > DATE_SUB(NOW(), INTERVAL 24 HOUR)
InHistoryWindow(row, boxId) ==
    row.box_id = boxId /\ row.timestamp > now - HistoryHours

\* SELECT * FROM sensor_logs WHERE ... ORDER BY timestamp DESC
SelectHistory(boxId) ==
    OrderBy({ x \in sensor_logs : InHistoryWindow(x, boxId) }, "timestamp", TRUE)

ScheduleRows == { medication_schedule[i] : i \in DOMAIN medication_schedule }

\* (as IsOutstanding, without the is_taken condition)
IsOfBox(row, boxId) == row.box_id = boxId

\* WHERE box_id = ? AND is_taken = 0
IsOutstanding(row, boxId) == row.box_id = boxId /\ ~row.is_taken

\* SELECT * FROM medication_schedule WHERE ... ORDER BY scheduled_time ASC
SelectSchedule(boxId) ==
    OrderBy({ x \in ScheduleRows : IsOutstanding(x, boxId) }, "scheduled_time", FALSE)

\* (as SelectMedicationHistory, with the statement of the schedule query pasted)
SelectMedicationHistoryPasted(boxId) == SelectSchedule(boxId)

\* SELECT * FROM medication_schedule WHERE box_id = ? ORDER BY scheduled_time DESC
SelectMedicationHistory(boxId) ==
    OrderBy({ x \in ScheduleRows : x.box_id = boxId }, "scheduled_time", TRUE)

\* (as UpdateTaken, without its WHERE clause)
UpdateTakenEverywhere(scheduleId) ==
    [ i \in DOMAIN medication_schedule |->
        [medication_schedule[i] EXCEPT !.is_taken = TRUE, !.taken_time = <<now>>] ]

\* (as UpdateTaken, with AND is_taken = 0 in the WHERE clause)
UpdateUntaken(scheduleId) ==
    [ i \in DOMAIN medication_schedule |->
        IF i = scheduleId /\ ~medication_schedule[i].is_taken
        THEN [medication_schedule[i] EXCEPT !.is_taken = TRUE, !.taken_time = <<now>>]
        ELSE medication_schedule[i] ]

\* (as UpdateTaken, with SET is_taken = NOT is_taken)
UpdateToggled(scheduleId) ==
    [ i \in DOMAIN medication_schedule |->
        IF i = scheduleId
        THEN [medication_schedule[i] EXCEPT !.is_taken = ~@, !.taken_time = <<now>>]
        ELSE medication_schedule[i] ]

\* UPDATE medication_schedule SET is_taken = 1, taken_time = NOW() WHERE id = ?
UpdateTaken(scheduleId) ==
    [ i \in DOMAIN medication_schedule |->
        IF i = scheduleId
        THEN [medication_schedule[i] EXCEPT !.is_taken = TRUE, !.taken_time = <<now>>]
        ELSE medication_schedule[i] ]

\* INSERT INTO sensor_logs (box_id, temperature, humidity, timestamp) VALUES (?, ?, ?, NOW())
SensorRow(r) ==
    [ req |-> r, k |-> 0, box_id |-> req[r].body.boxId,
      temperature |-> req[r].body.temperature, humidity |-> req[r].body.humidity,
      timestamp |-> now ]

\* INSERT INTO compartment_status (box_id, compartment_id, is_open, timestamp) VALUES (?, ?, ?, NOW())
CompartmentRow(r, k) ==
    LET compartment == req[r].body.compartmentStatus.items[k]
    IN  [ req |-> r, k |-> k, box_id |-> req[r].body.boxId,
          compartment_id |-> compartment.id,
          is_open |-> IF compartment.isOpen THEN 1 ELSE 0,
          timestamp |-> now ]

----------------------------------------------------------------------------
(* Responses *)

DataReceived == [status |-> 200, success |-> TRUE, message |-> "Data received successfully"]
MarkedTaken == [status |-> 200, success |-> TRUE, message |-> "Medication marked as taken"]
LatestResponse(sensorData, compartmentData) ==
    [ status |-> 200, success |-> TRUE,
      sensor |-> IF Len(sensorData) > 0 THEN sensorData[1] ELSE Null,
      compartments |-> compartmentData ]
DataResponse(rows) == [status |-> 200, success |-> TRUE, data |-> rows]
ErrorResponse(message) == [status |-> 500, success |-> FALSE, error |-> message]

----------------------------------------------------------------------------
(* The pool and the handlers' common steps *)

\* connectionLimit: 5 -- a connection is handed out only while fewer are out.
PoolHasFreeUnbounded == TRUE

PoolHasFree == poolActive < connectionLimit

\* finally { if (conn) conn.release(); }
Release(r) ==
    IF req[r].conn = "held" THEN poolActive - 1 ELSE poolActive

ConnAfterFinally(r) ==
    IF req[r].conn = "held" THEN "released" ELSE req[r].conn

\* (as Respond, with conn.release() at the end of the try block instead of in finally)
RespondReleaseInTry(r, response) ==
    /\ req' = [req EXCEPT ![r].res = response, ![r].pc = "done",
                          ![r].idx = 0, ![r].sensorData = <<>>,
                          ![r].conn = IF response.success THEN ConnAfterFinally(r) ELSE @,
                          ![r].releases = @ + (IF req[r].conn = "held" /\ response.success
                                               THEN 1 ELSE 0)]
    /\ poolActive' = IF response.success THEN Release(r) ELSE poolActive

\* (as Respond, in a handler without its catch block: a failure is answered nothing)
RespondWithoutCatch(r, response) ==
    /\ req' = [req EXCEPT ![r].res = IF response.success THEN response ELSE @,
                          ![r].pc = "done",
                          ![r].idx = 0, ![r].sensorData = <<>>,
                          ![r].conn = ConnAfterFinally(r),
                          ![r].releases = @ + (IF req[r].conn = "held" THEN 1 ELSE 0)]
    /\ poolActive' = Release(r)

\* res.json(...) followed by the finally block: the handler is over.
Respond(r, response) ==
    /\ req' = [req EXCEPT ![r].res = response, ![r].pc = "done",
                          ![r].idx = 0, ![r].sensorData = <<>>,
                          ![r].conn = ConnAfterFinally(r),
                          ![r].releases = @ + (IF req[r].conn = "held" THEN 1 ELSE 0)]
    /\ poolActive' = Release(r)

\* the statement awaited resolved and another one is issued on the connection
Continue(r, k) ==
    /\ req' = [req EXCEPT ![r].idx = k]
    /\ UNCHANGED poolActive

InFlight(r, kind, k) ==
    /\ req[r].pc = "query"
    /\ req[r].kind = kind
    /\ req[r].idx = k

IdleRequest ==
    [ kind |-> "none", body |-> NoBody, pc |-> "idle", idx |-> 0,
      conn |-> "undefined", releases |-> 0, sensorData |-> <<>>, res |-> NoResponse ]

IngestBodies ==
    [ kind : {"ingest"}, boxId : BoxIds, temperature : Temperatures,
      humidity : Humidities, compartmentStatus : CompartmentStatusInputs ]

SensorQueryBodies == [ kind : {"latest", "history"}, boxId : BoxIds ]

ScheduleBodies ==
    [ kind : {"schedule", "medhistory"}, boxId : BoxIds ]
    \cup [ kind : {"complete"},
           scheduleId : DOMAIN medication_schedule \cup {MissingScheduleId} ]

\* The requests of the runs over all six handlers: one request of each handler
\* for each way it can end.
Bodies ==
    { b \in IngestBodies :
        b.boxId = "box1" /\ Len(b.compartmentStatus.items) = 2 }
    \cup { b \in SensorQueryBodies : b.boxId = "box1" }
    \cup { b \in ScheduleBodies :
             IF b.kind = "complete" THEN b.scheduleId = 1 ELSE b.boxId = "box1" }

\* The reports of the runs of the ingestion handler alone: every shape of report
\* for box1, one report for box2.
ReportBodies ==
    { b \in IngestBodies : b.boxId = "box1" <=> Len(b.compartmentStatus.items) # 1 }

\* The requests of the runs that follow one box through several ingestions.
SensorBodies ==
    { b \in IngestBodies :
        /\ b.compartmentStatus.type = "array"
        /\ \A i \in DOMAIN b.compartmentStatus.items :
              b.compartmentStatus.items[i].type = "object"
        /\ b.boxId = "box2" => Len(b.compartmentStatus.items) = 1 }
    \cup { b \in SensorQueryBodies : b.boxId = "box1" }

\* The next request reaches its handler, which runs to `await pool.getConnection()`.
Arrive(r, body) ==
    /\ req[r].pc = "idle"
    /\ IF r = 1 THEN TRUE ELSE req[r - 1].pc # "idle"
    /\ req' = [req EXCEPT ![r].kind = body.kind, ![r].body = body,
                          ![r].pc = "getConnection"]
    /\ UNCHANGED <<now, store, poolActive>>

\* pool.getConnection() resolves: a connection is free and is handed out;
\* the first statement of the handler is issued on it.
GetConnection(r) ==
    /\ req[r].pc = "getConnection"
    /\ PoolHasFree
    /\ poolActive' = poolActive + 1
    /\ req' = [req EXCEPT ![r].conn = "held", ![r].pc = "query", ![r].idx = 0]
    /\ UNCHANGED <<now, store>>

\* pool.getConnection() rejects (no connection within the pool's timeout, or the
\* store cannot be reached): catch answers 500, finally finds conn undefined.
GetConnectionFails(r) ==
    /\ req[r].pc = "getConnection"
    /\ Respond(r, ErrorResponse("getConnection failed"))
    /\ UNCHANGED <<now, store>>

\* (as QueryFails, with the request's inserts undone as one transaction would)
QueryFailsRollback(r) ==
    /\ req[r].pc = "query"
    /\ Respond(r, ErrorResponse("query failed"))
    /\ sensor_logs' = { x \in sensor_logs : x.req # r }
    /\ compartment_status' = { x \in compartment_status : x.req # r }
    /\ UNCHANGED <<now, medication_schedule>>

\* conn.query() rejects: catch answers 500, finally releases.
QueryFails(r) ==
    /\ req[r].pc = "query"
    /\ Respond(r, ErrorResponse("query failed"))
    /\ UNCHANGED <<now, store>>

----------------------------------------------------------------------------
(* POST /api/sensor-data *)

Items(r) == req[r].body.compartmentStatus.items

\* if (compartmentStatus && Array.isArray(compartmentStatus))
HasCompartments(r) == req[r].body.compartmentStatus.type = "array"

\* (as AfterInsert, with the loop ending one element early)
AfterInsertOffByOne(r, k) ==
    IF HasCompartments(r) /\ k + 1 < Len(Items(r))
    THEN IF Items(r)[k + 1].type = "null"
         THEN Respond(r, ErrorResponse("TypeError"))
         ELSE Continue(r, k + 1)
    ELSE Respond(r, DataReceived)

\* What the handler does once insert number k (0: the reading) has resolved.
AfterInsert(r, k) ==
    IF HasCompartments(r) /\ k < Len(Items(r))
    THEN IF Items(r)[k + 1].type = "null"
         THEN Respond(r, ErrorResponse("TypeError"))
         ELSE Continue(r, k + 1)
    ELSE Respond(r, DataReceived)

\* (as IngestReading, with all inserts of the request issued at once, as by
\* Promise.all, and resolving together)
IngestReadingConcurrently(r) ==
    /\ InFlight(r, "ingest", 0)
    /\ sensor_logs' = sensor_logs \cup {SensorRow(r)}
    /\ compartment_status' = compartment_status \cup
          { CompartmentRow(r, k) : k \in { i \in DOMAIN Items(r) : HasCompartments(r) } }
    /\ Respond(r, DataReceived)
    /\ UNCHANGED <<now, medication_schedule>>

IngestReading(r) ==
    /\ InFlight(r, "ingest", 0)
    /\ sensor_logs' = sensor_logs \cup {SensorRow(r)}
    /\ AfterInsert(r, 0)
    /\ UNCHANGED <<now, compartment_status, medication_schedule>>

IngestCompartment(r) ==
    /\ req[r].pc = "query"
    /\ req[r].kind = "ingest"
    /\ req[r].idx > 0
    /\ compartment_status' = compartment_status \cup {CompartmentRow(r, req[r].idx)}
    /\ AfterInsert(r, req[r].idx)
    /\ UNCHANGED <<now, sensor_logs, medication_schedule>>

(* GET /api/sensor-data/latest/:boxId *)

LatestSensor(r) ==
    /\ InFlight(r, "latest", 0)
    /\ \E sensorData \in SelectLatestSensor(req[r].body.boxId) :
          req' = [req EXCEPT ![r].sensorData = sensorData, ![r].idx = 1]
    /\ UNCHANGED <<now, store, poolActive>>

LatestCompartments(r) ==
    /\ InFlight(r, "latest", 1)
    /\ \E compartmentData \in SelectLatestCompartments(req[r].body.boxId) :
          Respond(r, LatestResponse(req[r].sensorData, compartmentData))
    /\ UNCHANGED <<now, store>>

(* GET /api/sensor-data/history/:boxId *)

\* (as History, with the readings older than the window deleted by the query)
HistoryPruning(r) ==
    /\ InFlight(r, "history", 0)
    /\ \E history \in SelectHistory(req[r].body.boxId) :
          Respond(r, DataResponse(history))
    /\ sensor_logs' = { x \in sensor_logs : x.timestamp > now - HistoryHours }
    /\ UNCHANGED <<now, compartment_status, medication_schedule>>

History(r) ==
    /\ InFlight(r, "history", 0)
    /\ \E history \in SelectHistory(req[r].body.boxId) :
          Respond(r, DataResponse(history))
    /\ UNCHANGED <<now, store>>

(* GET /api/medication-schedule/:boxId *)

Schedule(r) ==
    /\ InFlight(r, "schedule", 0)
    /\ \E schedules \in SelectSchedule(req[r].body.boxId) :
          Respond(r, DataResponse(schedules))
    /\ UNCHANGED <<now, store>>

(* POST /api/medication-schedule/complete *)

\* (as Complete, answering 404 when the UPDATE matched no row)
CompleteChecked(r) ==
    /\ InFlight(r, "complete", 0)
    /\ medication_schedule' = UpdateTaken(req[r].body.scheduleId)
    /\ Respond(r, IF req[r].body.scheduleId \in DOMAIN medication_schedule
                  THEN MarkedTaken
                  ELSE [status |-> 404, success |-> FALSE, error |-> "not found"])
    /\ UNCHANGED <<now, sensor_logs, compartment_status>>

Complete(r) ==
    /\ InFlight(r, "complete", 0)
    /\ medication_schedule' = UpdateTaken(req[r].body.scheduleId)
    /\ Respond(r, MarkedTaken)
    /\ UNCHANGED <<now, sensor_logs, compartment_status>>

(* GET /api/medication-history/:boxId *)

MedicationHistory(r) ==
    /\ InFlight(r, "medhistory", 0)
    /\ \E history \in SelectMedicationHistory(req[r].body.boxId) :
          Respond(r, DataResponse(history))
    /\ UNCHANGED <<now, store>>

----------------------------------------------------------------------------
(* The environment *)

\* The store's clock advances.
Tick(t) ==
    /\ t > now
    /\ now' = t
    /\ UNCHANGED <<store, poolActive, req>>

\* The schedule is seeded by a collaborator outside this program.  The nullable
\* taken_time holds no value (<<>>) or one (<<t>>).
SeedSchedule ==
    [ i \in 1..4 |->
        [ id |-> i, box_id |-> IF i = 3 THEN "box2" ELSE "box1",
          scheduled_time |-> IF i = 2 THEN 50 ELSE IF i = 4 THEN 10 ELSE 1,
          is_taken |-> FALSE, taken_time |-> <<>> ] ]

\* What earlier requests may have left in the store: the rows of one report of each
\* box (requests 0 and -1), ingested at instant 0.
EarlierSensorLogs ==
    { [ req |-> 0, k |-> 0, box_id |-> "box1", temperature |-> 22, humidity |-> 40,
        timestamp |-> 0 ],
      [ req |-> -1, k |-> 0, box_id |-> "box2", temperature |-> 22, humidity |-> 40,
        timestamp |-> 0 ] }

EarlierCompartmentStatus ==
    { [ req |-> 0, k |-> 1, box_id |-> "box1", compartment_id |-> 1, is_open |-> 1,
        timestamp |-> 0 ],
      [ req |-> 0, k |-> 2, box_id |-> "box1", compartment_id |-> 2, is_open |-> 0,
        timestamp |-> 0 ],
      [ req |-> -1, k |-> 1, box_id |-> "box2", compartment_id |-> 1, is_open |-> 0,
        timestamp |-> 0 ] }

InitWith(n, earlier) ==
    /\ now = 0
    /\ sensor_logs = IF earlier THEN EarlierSensorLogs ELSE {}
    /\ compartment_status = IF earlier THEN EarlierCompartmentStatus ELSE {}
    /\ medication_schedule = SeedSchedule
    /\ poolActive = 0
    /\ req = [r \in 1..n |-> IdleRequest]

Advance == \E t \in Instants : Tick(t)

\* All six handlers.
Init == InitWith(MaxRequests, FALSE)

Next ==
    \/ \E r \in DOMAIN req : \E body \in Bodies : Arrive(r, body)
    \/ \E r \in DOMAIN req : GetConnection(r)
    \/ \E r \in DOMAIN req : GetConnectionFails(r)
    \/ \E r \in DOMAIN req : QueryFails(r)
    \/ \E r \in DOMAIN req : IngestReading(r)
    \/ \E r \in DOMAIN req : IngestCompartment(r)
    \/ \E r \in DOMAIN req : LatestSensor(r)
    \/ \E r \in DOMAIN req : LatestCompartments(r)
    \/ \E r \in DOMAIN req : History(r)
    \/ \E r \in DOMAIN req : Schedule(r)
    \/ \E r \in DOMAIN req : Complete(r)
    \/ \E r \in DOMAIN req : MedicationHistory(r)
    \/ Advance

Spec == Init /\ [][Next]_vars

\* The ingestion handler.
InitIngest == InitWith(MaxReports, FALSE)

NextIngest ==
    \/ \E r \in DOMAIN req : \E body \in ReportBodies : Arrive(r, body)
    \/ \E r \in DOMAIN req : GetConnection(r)
    \/ \E r \in DOMAIN req : GetConnectionFails(r)
    \/ \E r \in DOMAIN req : QueryFails(r)
    \/ \E r \in DOMAIN req : IngestReading(r)
    \/ \E r \in DOMAIN req : IngestCompartment(r)
    \/ Advance

SpecIngest == InitIngest /\ [][NextIngest]_vars

\* The handlers of sensor_logs and compartment_status, on a store that holds
\* earlier reports.
InitSensor == InitWith(MaxSensorRequests, TRUE)

NextSensor ==
    \/ \E r \in DOMAIN req : \E body \in SensorBodies : Arrive(r, body)
    \/ \E r \in DOMAIN req : GetConnection(r)
    \/ \E r \in DOMAIN req : GetConnectionFails(r)
    \/ \E r \in DOMAIN req : QueryFails(r)
    \/ \E r \in DOMAIN req : IngestReading(r)
    \/ \E r \in DOMAIN req : IngestCompartment(r)
    \/ \E r \in DOMAIN req : LatestSensor(r)
    \/ \E r \in DOMAIN req : LatestCompartments(r)
    \/ \E r \in DOMAIN req : History(r)
    \/ Advance

SpecSensor == InitSensor /\ [][NextSensor]_vars

\* The handlers of medication_schedule.
InitSchedule == InitWith(MaxScheduleRequests, FALSE)

NextSchedule ==
    \/ \E r \in DOMAIN req : \E body \in ScheduleBodies : Arrive(r, body)
    \/ \E r \in DOMAIN req : GetConnection(r)
    \/ \E r \in DOMAIN req : GetConnectionFails(r)
    \/ \E r \in DOMAIN req : QueryFails(r)
    \/ \E r \in DOMAIN req : Schedule(r)
    \/ \E r \in DOMAIN req : Complete(r)
    \/ \E r \in DOMAIN req : MedicationHistory(r)
    \/ Advance

SpecSchedule == InitSchedule /\ [][NextSchedule]_vars

\* A burst of reports of one box, more than the pool has connections.
PoolBodies ==
    { b \in IngestBodies :
        b.boxId = "box1" /\ b.compartmentStatus.type = "undefined" }

InitPool == InitWith(MaxPoolRequests, FALSE)

NextPool ==
    \/ \E r \in DOMAIN req : \E body \in PoolBodies : Arrive(r, body)
    \/ \E r \in DOMAIN req : GetConnection(r)
    \/ \E r \in DOMAIN req : GetConnectionFails(r)
    \/ \E r \in DOMAIN req : QueryFails(r)
    \/ \E r \in DOMAIN req : IngestReading(r)

SpecPool == InitPool /\ [][NextPool]_vars

\* A burst of reports that can take every connection of the pool, and after them
\* one request of any handler.  Every await of a handler is eventually resumed:
\* pool.getConnection() resolves or rejects, and so does each statement issued.
BurstBodies(r) == IF r < MaxBurstRequests THEN PoolBodies ELSE Bodies

InitBurst == InitWith(MaxBurstRequests, FALSE)

NextBurst ==
    \/ \E r \in DOMAIN req : \E body \in BurstBodies(r) : Arrive(r, body)
    \/ \E r \in DOMAIN req : GetConnection(r)
    \/ \E r \in DOMAIN req : GetConnectionFails(r)
    \/ \E r \in DOMAIN req : QueryFails(r)
    \/ \E r \in DOMAIN req : IngestReading(r)
    \/ \E r \in DOMAIN req : IngestCompartment(r)
    \/ \E r \in DOMAIN req : LatestSensor(r)
    \/ \E r \in DOMAIN req : LatestCompartments(r)
    \/ \E r \in DOMAIN req : History(r)
    \/ \E r \in DOMAIN req : Schedule(r)
    \/ \E r \in DOMAIN req : Complete(r)
    \/ \E r \in DOMAIN req : MedicationHistory(r)

AwaitedConnection(r) == GetConnection(r) \/ GetConnectionFails(r)

AwaitedQuery(r) ==
    \/ QueryFails(r)
    \/ IngestReading(r)
    \/ IngestCompartment(r)
    \/ LatestSensor(r)
    \/ LatestCompartments(r)
    \/ History(r)
    \/ Schedule(r)
    \/ Complete(r)
    \/ MedicationHistory(r)

BurstFairness ==
    \A r \in 1..MaxBurstRequests :
        WF_vars(AwaitedConnection(r)) /\ WF_vars(AwaitedQuery(r))

SpecBurst == InitBurst /\ [][NextBurst]_vars /\ BurstFairness

\* The State Query on a store in which one compartment of box1 has reported more
\* often than the other: compartment 2 once, three hours before the start, and
\* compartment 1 in each of the three hours since; box2 reported at the start.
PastCompartmentStatus ==
    { [ req |-> -2, k |-> 1, box_id |-> "box1", compartment_id |-> 2, is_open |-> 0,
        timestamp |-> -3 ],
      [ req |-> -3, k |-> 1, box_id |-> "box1", compartment_id |-> 1, is_open |-> 1,
        timestamp |-> -2 ],
      [ req |-> -4, k |-> 1, box_id |-> "box1", compartment_id |-> 1, is_open |-> 0,
        timestamp |-> -1 ],
      [ req |-> -5, k |-> 1, box_id |-> "box1", compartment_id |-> 1, is_open |-> 1,
        timestamp |-> 0 ],
      [ req |-> -1, k |-> 1, box_id |-> "box2", compartment_id |-> 1, is_open |-> 0,
        timestamp |-> 0 ] }

CompartmentBodies == { b \in SensorBodies : b.kind \in {"ingest", "latest"} }

InitCompartments ==
    /\ now = 0
    /\ sensor_logs = EarlierSensorLogs
    /\ compartment_status = PastCompartmentStatus
    /\ medication_schedule = SeedSchedule
    /\ poolActive = 0
    /\ req = [r \in 1..MaxCompartmentRequests |-> IdleRequest]

NextCompartments ==
    \/ \E r \in DOMAIN req : \E body \in CompartmentBodies : Arrive(r, body)
    \/ \E r \in DOMAIN req : GetConnection(r)
    \/ \E r \in DOMAIN req : GetConnectionFails(r)
    \/ \E r \in DOMAIN req : QueryFails(r)
    \/ \E r \in DOMAIN req : IngestReading(r)
    \/ \E r \in DOMAIN req : IngestCompartment(r)
    \/ \E r \in DOMAIN req : LatestSensor(r)
    \/ \E r \in DOMAIN req : LatestCompartments(r)
    \/ Advance

SpecCompartments == InitCompartments /\ [][NextCompartments]_vars

\* Completion calls for one entry, and Schedule History queries that show what
\* the calls before them have left.
CompletionBodies ==
    { b \in ScheduleBodies :
        IF b.kind = "complete" THEN b.scheduleId = 1
        ELSE b.kind = "medhistory" /\ b.boxId = "box1" }

InitCompletion == InitWith(MaxCompletionRequests, FALSE)

NextCompletion ==
    \/ \E r \in DOMAIN req : \E body \in CompletionBodies : Arrive(r, body)
    \/ \E r \in DOMAIN req : GetConnection(r)
    \/ \E r \in DOMAIN req : GetConnectionFails(r)
    \/ \E r \in DOMAIN req : QueryFails(r)
    \/ \E r \in DOMAIN req : Complete(r)
    \/ \E r \in DOMAIN req : MedicationHistory(r)
    \/ Advance

SpecCompletion == InitCompletion /\ [][NextCompletion]_vars

\* Reports of two compartments of box1 and State Queries for box1, running
\* concurrently.
ConcurrentBodies ==
    { b \in SensorBodies :
        /\ b.boxId = "box1"
        /\ IF b.kind = "ingest" THEN Len(b.compartmentStatus.items) = 2
           ELSE b.kind = "latest" }

InitConcurrent == InitWith(MaxConcurrentRequests, FALSE)

NextConcurrent ==
    \/ \E r \in DOMAIN req : \E body \in ConcurrentBodies : Arrive(r, body)
    \/ \E r \in DOMAIN req : GetConnection(r)
    \/ \E r \in DOMAIN req : GetConnectionFails(r)
    \/ \E r \in DOMAIN req : QueryFails(r)
    \/ \E r \in DOMAIN req : IngestReading(r)
    \/ \E r \in DOMAIN req : IngestCompartment(r)
    \/ \E r \in DOMAIN req : LatestSensor(r)
    \/ \E r \in DOMAIN req : LatestCompartments(r)
    \/ Advance

SpecConcurrent == InitConcurrent /\ [][NextConcurrent]_vars

----------------------------------------------------------------------------
(* Properties *)

Requests == DOMAIN req

Ingestions == { r \in Requests : req[r].kind = "ingest" }

Over(r) == req[r].pc = "done"

Succeeded(r) == Over(r) /\ req[r].res.status = 200 /\ req[r].res.success

FailedWith(r, message) ==
    Over(r) /\ req[r].res = [status |-> 500, success |-> FALSE, error |-> message]

\* The rows request r has inserted.
ReadingsOf(r) == { x \in sensor_logs : x.req = r }
CompartmentsOf(r) == { x \in compartment_status : x.req = r }

\* N: the length of the compartment sequence a report supplies, 0 without one.
SuppliedLength(r) ==
    IF req[r].body.compartmentStatus.type = "array"
    THEN Len(req[r].body.compartmentStatus.items) ELSE 0

\* Request r has created one reading of its box and one compartment row for each
\* element of its sequence, and nothing else.
CreatedAllRows(r) ==
    /\ Cardinality(ReadingsOf(r)) = 1
    /\ \A x \in ReadingsOf(r) :
          /\ x.box_id = req[r].body.boxId
          /\ x.temperature = req[r].body.temperature
          /\ x.humidity = req[r].body.humidity
    /\ Cardinality(CompartmentsOf(r)) = SuppliedLength(r)
    /\ \A i \in 1..SuppliedLength(r) :
          \E x \in CompartmentsOf(r) :
             /\ x.k = i
             /\ x.box_id = req[r].body.boxId
             /\ x.compartment_id = req[r].body.compartmentStatus.items[i].id
             /\ (x.is_open = 1) = req[r].body.compartmentStatus.items[i].isOpen

\* Every row of the two logs was inserted by an ingestion.
OnlyIngestionsInsert ==
    \A x \in sensor_logs \cup compartment_status : x.req >= 1 => x.req \in Ingestions

\* C1 as stated: every ingestion request that is over and in which no insert failed
\* has created exactly one reading and N compartment rows.
C1_NoInsertFailsCreatesAllRows ==
    \A r \in Ingestions :
        Over(r) /\ ~FailedWith(r, "query failed") => CreatedAllRows(r)

\* C1 amended: every ingestion request answered with the success acknowledgement
\* (its connection was acquired, no insert failed and no element of the sequence
\* made the handler throw) has created exactly one reading of its box and exactly
\* N compartment rows, N the length of the supplied sequence (0 without one); no
\* row is created by any other handler.
C1_SuccessCreatesAllRows ==
    /\ \A r \in Ingestions : Succeeded(r) => CreatedAllRows(r)
    /\ OnlyIngestionsInsert

C1_Witness ==
    \E r \in Ingestions :
        /\ Succeeded(r)
        /\ SuppliedLength(r) = 2
        /\ Cardinality(CompartmentsOf(r)) = 2
        /\ \E q \in Ingestions : q # r /\ Succeeded(q) /\ SuppliedLength(q) = 0

\* The connections handed out and not given back.
Held == { r \in Requests : req[r].conn = "held" }

\* C2: a request that is over holds no connection, and has released the one it
\* acquired exactly once (none if it acquired none); the pool counts exactly the
\* connections held by running handlers, so with no request in flight none is out.
C2_ConnectionReleasedOnEveryPath ==
    /\ \A r \in Requests :
          Over(r) =>
             /\ req[r].conn # "held"
             /\ req[r].releases = IF req[r].conn = "released" THEN 1 ELSE 0
             /\ req[r].conn = "undefined" => FailedWith(r, "getConnection failed")
    /\ \A r \in Requests : req[r].conn = "held" <=> req[r].pc = "query"
    /\ poolActive = Cardinality(Held)
    /\ (\A r \in Requests : req[r].pc \in {"idle", "done"}) => poolActive = 0

C2_Witness ==
    \E r, q \in Requests :
        /\ FailedWith(r, "query failed") /\ req[r].kind = "complete"
        /\ FailedWith(q, "TypeError") /\ req[q].releases = 1
        /\ poolActive = 0

\* The inserts of request r that have taken effect are the first n of them.
InsertedPrefix(r, n) ==
    /\ { x.k : x \in ReadingsOf(r) } = { k \in {0} : n >= 1 }
    /\ Cardinality(ReadingsOf(r)) = Cardinality({ k \in {0} : n >= 1 })
    /\ { x.k : x \in CompartmentsOf(r) } = 1..(n - 1)
    /\ Cardinality(CompartmentsOf(r)) = Cardinality(1..(n - 1))

\* C3: when an insert of an ingestion fails (insert number idx, counted from 0), the
\* step leaves the store as it was, with exactly the idx earlier inserts of the
\* request in it, and answers the failure; once a request is over none of its rows
\* is added or removed and its answer stays; no row of either log is ever removed.
C3_FailedInsertAbortsWithoutRollback ==
    [][ /\ \A r \in Ingestions :
             (req[r].pc = "query" /\ FailedWith(r, "query failed")') =>
                /\ store' = store
                /\ InsertedPrefix(r, req[r].idx)
                /\ ~Succeeded(r)'
        /\ \A r \in Ingestions :
             Over(r) =>
                /\ ReadingsOf(r)' = ReadingsOf(r)
                /\ CompartmentsOf(r)' = CompartmentsOf(r)
                /\ req'[r].res = req[r].res
        /\ sensor_logs \subseteq sensor_logs'
        /\ compartment_status \subseteq compartment_status' ]_vars

C3_Witness ==
    \E r \in Ingestions :
        /\ FailedWith(r, "query failed")
        /\ SuppliedLength(r) = 2
        /\ InsertedPrefix(r, 2)

\* The readings and the compartment rows of a box.
ReadingsOfBox(b) == { x \in sensor_logs : x.box_id = b }
CompartmentsOfBox(b) == { x \in compartment_status : x.box_id = b }

\* Request r, of the given handler, resumes in this step from its statement number k.
Resumes(r, kind, k) ==
    /\ req[r].kind = kind
    /\ req[r].pc = "query"
    /\ req[r].idx = k
    /\ req'[r] # req[r]

\* The answer of request r in this step is the handler's success response.
Answers(r) == Over(r)' /\ req'[r].res.status = 200 /\ req'[r].res.success

\* Sequence s holds each row of set S once and nothing else.
HoldsExactly(s, S) ==
    /\ { s[i] : i \in DOMAIN s } = S
    /\ Len(s) = Cardinality(S)

\* C4: when the sensor query of a State Query for box B executes, it yields the
\* reading of B with the greatest timestamp among all readings of B ingested so far
\* (none only if B has no reading), whatever was ingested for other boxes; that row
\* is what the response carries as 'sensor'.
C4_LatestReturnsMostRecentReading ==
    [][ \A r \in Requests :
          /\ (Resumes(r, "latest", 0) /\ ~Over(r)') =>
                LET B == req[r].body.boxId
                    got == req'[r].sensorData
                IN  IF ReadingsOfBox(B) = {} THEN got = <<>>
                    ELSE /\ Len(got) = 1
                         /\ got[1] \in ReadingsOfBox(B)
                         /\ \A y \in ReadingsOfBox(B) : y.timestamp <= got[1].timestamp
          /\ (Resumes(r, "latest", 1) /\ Answers(r)) =>
                req'[r].res.sensor =
                   IF req[r].sensorData = <<>> THEN Null ELSE req[r].sensorData[1] ]_vars

\* A State Query for box1 has answered the reading ingested last, at a later
\* instant than the earlier reading of box1, with a reading of box2 in the store.
C4_Witness ==
    \E r \in Requests :
        /\ req[r].kind = "latest" /\ Succeeded(r)
        /\ req[r].res.sensor \in ReadingsOfBox("box1")
        /\ req[r].res.sensor.timestamp > 0
        /\ \E y \in ReadingsOfBox("box1") : y.timestamp = 0
        /\ ReadingsOfBox("box2") # {}

\* The rows of compartment c in a sequence of rows, and the first of them.
PositionsOf(s, c) == { i \in DOMAIN s : s[i].compartment_id = c }
FirstOf(s, c) == s[CHOOSE i \in PositionsOf(s, c) : \A j \in PositionsOf(s, c) : i <= j]

\* The most recent report of compartment c of box b is 'closed': the rows of (b, c)
\* with the greatest timestamp are all closed.
LastReportedClosed(b, c) ==
    LET rows == { x \in CompartmentsOfBox(b) : x.compartment_id = c }
    IN  /\ rows # {}
        /\ \A x \in rows : (\A y \in rows : y.timestamp <= x.timestamp) => x.is_open = 0

C6_HistoryReturnsTrailingDay ==
    [][ \A r \in Requests : (Resumes(r, "history", 0) /\ Answers(r)) =>
          LET B == req[r].body.boxId
              got == req'[r].res.data
          IN  /\ HoldsExactly(got, { x \in sensor_logs :
                                       x.box_id = B /\ x.timestamp > now - 24 })
              /\ \A i, j \in DOMAIN got : i < j => got[i].timestamp >= got[j].timestamp
              /\ \A i \in DOMAIN got : now - got[i].timestamp < 24 ]_vars

\* A History Query for box1 at instant 25 has answered the reading of instant 24
\* (now - 1h) and not the reading of instant 0 (now - 25h).
C6_Witness ==
    \E r \in Requests :
        /\ req[r].kind = "history" /\ Succeeded(r)
        /\ now = 25
        /\ \E x \in ReadingsOfBox("box1") : x.timestamp = 0
        /\ Len(req[r].res.data) = 1
        /\ req[r].res.data[1].timestamp = 24

\* The Completion calls for an entry that exists.
Completions ==
    { r \in Requests :
        req[r].kind = "complete" /\ req[r].body.scheduleId \in DOMAIN medication_schedule }

\* C7: after every Completion call that reports success, the first, the second or a
\* later one, in sequence or overlapping, the entry has isTaken = true; and a
\* Completion call never reports an error of its own: the only failures are a
\* rejected getConnection and a rejected statement.
C7_CompletionIdempotent ==
    \A r \in Completions :
        /\ Succeeded(r) =>
              /\ medication_schedule[req[r].body.scheduleId].is_taken
              /\ medication_schedule[req[r].body.scheduleId].taken_time # <<>>
        /\ Over(r) =>
              \/ req[r].res = [status |-> 200, success |-> TRUE,
                               message |-> "Medication marked as taken"]
              \/ FailedWith(r, "getConnection failed")
              \/ FailedWith(r, "query failed")

\* Two Completion calls for the same entry have both reported success.
C7_Witness ==
    \E r, q \in Completions :
        /\ r # q
        /\ req[r].body.scheduleId = req[q].body.scheduleId
        /\ Succeeded(r) /\ Succeeded(q)
        /\ medication_schedule[req[r].body.scheduleId].is_taken

\* C8: when the query of a Schedule Query for box B executes, the answer holds, once
\* each, exactly the entries of B with isTaken = false, overdue or not, by
\* scheduledTime ascending; none is taken, none is an entry whose Completion has
\* already reported success.
C8_ScheduleReturnsOutstanding ==
    [][ \A r \in Requests : (Resumes(r, "schedule", 0) /\ Answers(r)) =>
          LET B == req[r].body.boxId
              got == req'[r].res.data
          IN  /\ HoldsExactly(got, { medication_schedule[i] : i \in
                     { j \in DOMAIN medication_schedule :
                         /\ medication_schedule[j].box_id = B
                         /\ medication_schedule[j].is_taken = FALSE } })
              /\ \A i, j \in DOMAIN got :
                    i < j => got[i].scheduled_time <= got[j].scheduled_time
              /\ \A i \in DOMAIN got :
                    /\ ~got[i].is_taken
                    /\ ~\E q \in Completions :
                          Succeeded(q) /\ req[q].body.scheduleId = got[i].id ]_vars

\* A Schedule Query for box1 has answered an overdue entry and then a future one,
\* without the entry between them, which a Completion had marked taken.
C8_Witness ==
    \E r \in Requests :
        /\ req[r].kind = "schedule" /\ Succeeded(r)
        /\ Len(req[r].res.data) = 2
        /\ req[r].res.data[1].scheduled_time < now
        /\ req[r].res.data[2].scheduled_time > now
        /\ \E q \in Completions :
              /\ Succeeded(q)
              /\ medication_schedule[req[q].body.scheduleId].box_id = "box1"

\* C9: when the query of a Schedule History query for box B executes, the answer
\* holds, once each, exactly the entries of B, taken or not, by scheduledTime
\* descending.
C9_MedicationHistoryReturnsAll ==
    [][ \A r \in Requests : (Resumes(r, "medhistory", 0) /\ Answers(r)) =>
          LET B == req[r].body.boxId
              got == req'[r].res.data
          IN  /\ HoldsExactly(got, { medication_schedule[i] : i \in
                     { j \in DOMAIN medication_schedule :
                         medication_schedule[j].box_id = B } })
              /\ \A i, j \in DOMAIN got :
                    i < j => got[i].scheduled_time >= got[j].scheduled_time ]_vars

\* A Schedule History query has answered a taken and an untaken entry.
C9_Witness ==
    \E r \in Requests :
        /\ req[r].kind = "medhistory" /\ Succeeded(r)
        /\ \E i, j \in DOMAIN req[r].res.data :
              /\ req[r].res.data[i].is_taken
              /\ ~req[r].res.data[j].is_taken

\* The requests waiting for pool.getConnection().
Waiting == { r \in Requests : req[r].pc = "getConnection" }

\* At most five connections are out; a request holds one exactly while it runs its
\* statements and never a second; a waiting request has issued no statement.
PoolDiscipline ==
    /\ poolActive <= 5
    /\ poolActive = Cardinality(Held)
    /\ \A r \in Requests :
          /\ req[r].conn = "held" <=> req[r].pc = "query"
          /\ req[r].releases <= 1
          /\ req[r].conn = "held" => req[r].releases = 0
    /\ \A r \in Waiting :
          /\ req[r].conn = "undefined"
          /\ ReadingsOf(r) = {}
          /\ CompartmentsOf(r) = {}

\* C10: never more than connectionLimit (5) connections are out of the pool; a
\* request holds a connection exactly while it runs its statements, one and never a
\* second; a request waiting for the pool has issued no statement, and while all
\* connections are out no waiting request goes on to its statements.
C10_PoolBoundsConnections ==
    /\ []PoolDiscipline
    /\ [][ Cardinality(Held) >= 5 =>
              \A r \in Waiting : req'[r].pc \in {"getConnection", "done"} ]_vars

\* Five requests hold the five connections and a sixth waits.
C10_Witness ==
    /\ Cardinality(Held) = 5
    /\ Waiting # {}

\* Request r has been sent a response exactly if its handler is over; the response
\* carries a success flag, true with status 200 or false with the server-fault
\* status 500; a request that got no connection is answered the failure.
AnsweredWell(r) ==
    /\ req[r].res # NoResponse <=> Over(r)
    /\ Over(r) =>
          /\ "success" \in DOMAIN req[r].res
          /\ \/ req[r].res.success /\ req[r].res.status = 200
             \/ ~req[r].res.success /\ req[r].res.status = 500
                  /\ "error" \in DOMAIN req[r].res
          /\ req[r].conn = "undefined" => ~req[r].res.success

\* No request is in flight: each one has not arrived yet or is over.
Quiescent == \A r \in Requests : req[r].pc \in {"idle", "done"}

\* C11: from every state, a state is reached in which every request that has
\* reached its handler is over, so each request is eventually answered, also one
\* that waits while all connections of the pool are out; it is answered once: the
\* response is sent in the step that ends the handler and no later step changes
\* or repeats it; the response is success:true with status 200, or success:false
\* with status 500, which is what a rejected getConnection and a rejected
\* statement are answered.
C11_EveryRequestAnsweredOnce ==
    /\ []<>Quiescent
    /\ [](\A r \in Requests : AnsweredWell(r))
    /\ [][ \A r \in Requests :
             /\ req[r].res # NoResponse => req'[r] = req[r]
             /\ (req[r].pc = "getConnection" /\ Over(r)') =>
                    FailedWith(r, "getConnection failed")'
             /\ (req[r].pc = "query" /\ Over(r)' /\ ~Succeeded(r)') =>
                    req'[r].res.status = 500 /\ ~req'[r].res.success ]_vars

\* All connections of the pool are out and the request of a query handler waits
\* for one, while the five reports before it run their statements.
C11_Witness ==
    /\ poolActive = connectionLimit
    /\ \E r \in Waiting : req[r].kind = "latest"
    /\ \A r \in Held : req[r].res = NoResponse

\* The Completion calls for a scheduleId that matches no entry.
UnmatchedCompletions ==
    { r \in Requests :
        req[r].kind = "complete" /\ req[r].body.scheduleId \notin DOMAIN medication_schedule }

\* C12: the step in which the UPDATE of a Completion call for a scheduleId that
\* matches no entry executes leaves every row of the store as it was and answers
\* the success response; only a rejected statement is answered otherwise.  Such a
\* call that has reported success did acquire a connection and run its statement.
C12_UnmatchedCompletionSucceeds ==
    /\ [](\A r \in UnmatchedCompletions :
            /\ Succeeded(r) => req[r].conn = "released" /\ req[r].res = MarkedTaken
            /\ Over(r) => \/ Succeeded(r)
                           \/ FailedWith(r, "getConnection failed")
                           \/ FailedWith(r, "query failed"))
    /\ [][ \A r \in UnmatchedCompletions :
             Resumes(r, "complete", 0) =>
                /\ store' = store
                /\ \/ Answers(r) /\ req'[r].res = MarkedTaken
                   \/ FailedWith(r, "query failed")' ]_vars

\* A Completion call for a scheduleId that matches no entry has reported success,
\* after a call for an entry that exists.
C12_Witness ==
    \E r \in UnmatchedCompletions :
        /\ Succeeded(r)
        /\ \E q \in Completions : q < r /\ Succeeded(q)
        /\ \A i \in DOMAIN medication_schedule :
              medication_schedule[i].is_taken <=>
                 \E q \in Completions : req[q].body.scheduleId = i

\* C13: in every step of any handler, every schedule entry stays in the table
\* under its id, and an entry whose isTaken is true keeps it true; so in every
\* reachable state the entries are those the schedule was seeded with.
C13_IsTakenMonotonic ==
    /\ [](DOMAIN medication_schedule = DOMAIN SeedSchedule)
    /\ [][ \A i \in DOMAIN medication_schedule :
             /\ i \in DOMAIN medication_schedule'
             /\ medication_schedule'[i].id = medication_schedule[i].id
             /\ medication_schedule[i].is_taken => medication_schedule'[i].is_taken ]_vars

\* Two Completion calls for one entry have both reported success, the later one
\* after the clock advanced, and the entry is taken.
C13_Witness ==
    \E r, q \in Completions :
        /\ r # q
        /\ req[r].body.scheduleId = req[q].body.scheduleId
        /\ Succeeded(r) /\ Succeeded(q)
        /\ medication_schedule[req[r].body.scheduleId].is_taken
        /\ medication_schedule[req[r].body.scheduleId].taken_time = <<HistoryHours>>
        /\ Cardinality(DOMAIN medication_schedule) = 4

\* The compartments of box b that have reported, and the rows of one of them.
CompartmentIds(b) == { x.compartment_id : x \in CompartmentsOfBox(b) }
RowsOfCompartment(b, c) == { x \in CompartmentsOfBox(b) : x.compartment_id = c }

\* Row x is a most recent row of its (boxId, compartmentId) pair.
MostRecentOfCompartment(x) ==
    /\ x \in compartment_status
    /\ \A y \in RowsOfCompartment(x.box_id, x.compartment_id) : y.timestamp <= x.timestamp

\* C14: when the compartment query of a State Query for box B executes and B has
\* at most four distinct compartments, the answer holds, for every compartment of
\* B that has reported, a most recent row of that compartment.
C14_LatestPerCompartment ==
    [][ \A r \in Requests : (Resumes(r, "latest", 1) /\ Answers(r)) =>
          LET B == req[r].body.boxId
              got == req'[r].res.compartments
          IN  Cardinality(CompartmentIds(B)) <= 4 =>
                 \A c \in CompartmentIds(B) :
                    \E i \in DOMAIN got :
                       /\ got[i].compartment_id = c
                       /\ MostRecentOfCompartment(got[i]) ]_vars

\* The smaller of two numbers.
Min(a, b) == IF a < b THEN a ELSE b

\* C15: when the compartment query of a State Query for box B executes, the
\* compartments of the answer are min(4, n) different rows of B, n the number of
\* rows of B in the store, most recent first; no row of B left out is more recent
\* than a row of the answer; the answer never has more than four rows and never a
\* row of another box.
C15_LatestCompartmentsAreFourMostRecent ==
    [][ \A r \in Requests : (Resumes(r, "latest", 1) /\ Answers(r)) =>
          LET B == req[r].body.boxId
              got == req'[r].res.compartments
              rows == { got[i] : i \in DOMAIN got }
          IN  /\ Len(got) = Min(4, Cardinality(CompartmentsOfBox(B)))
              /\ Len(got) <= 4
              /\ Cardinality(rows) = Len(got)
              /\ rows \subseteq CompartmentsOfBox(B)
              /\ \A i \in DOMAIN got : got[i].box_id = B
              /\ \A i, j \in DOMAIN got : i < j => got[i].timestamp >= got[j].timestamp
              /\ \A x \in rows : \A y \in CompartmentsOfBox(B) \ rows :
                    y.timestamp <= x.timestamp ]_vars

\* A State Query for box1 has answered four of the six rows of box1, the rows of a
\* report ingested since the start first, while the store holds a row of box2 more
\* recent than the last row of the answer.
C15_Witness ==
    \E r \in Requests :
        /\ req[r].kind = "latest" /\ Succeeded(r)
        /\ Len(req[r].res.compartments) = 4
        /\ Cardinality(CompartmentsOfBox("box1")) = 6
        /\ req[r].res.compartments[1].req >= 1
        /\ \E y \in CompartmentsOfBox("box2") :
              y.timestamp > req[r].res.compartments[4].timestamp

\* The rows request r has inserted, each named by the number of its insert
\* (0: the reading, k: element k of the sequence).
InsertsOf(r) == { x.k : x \in ReadingsOf(r) \cup CompartmentsOf(r) }

\* The row of insert number k of request r.
RowOfInsert(r, k) ==
    CHOOSE x \in ReadingsOf(r) \cup CompartmentsOf(r) : x.k = k

\* C16: while an ingestion request runs its statements, exactly one insert is in
\* flight, insert number idx, and the inserts that have completed are exactly the
\* idx before it in input order, the reading first; a step completes at most one
\* insert of a request, the one in flight; the rows carry store times that do not
\* decrease in input order; and the success acknowledgement is sent only in the
\* step that completes the last insert, when all 1 + N rows are stored.
C16_InsertsStrictlyOrdered ==
    /\ [](\A r \in Ingestions :
            /\ req[r].pc = "query" =>
                  /\ InsertedPrefix(r, req[r].idx)
                  /\ req[r].idx <= SuppliedLength(r)
            /\ \A k \in InsertsOf(r) : \A j \in 0..(k - 1) :
                  /\ j \in InsertsOf(r)
                  /\ RowOfInsert(r, j).timestamp <= RowOfInsert(r, k).timestamp
            /\ Succeeded(r) => InsertsOf(r) = 0..SuppliedLength(r))
    /\ [][ \A r \in Ingestions :
             /\ InsertsOf(r) \subseteq InsertsOf(r)'
             /\ InsertsOf(r)' # InsertsOf(r) =>
                   /\ req[r].pc = "query"
                   /\ InsertsOf(r)' = InsertsOf(r) \cup {req[r].idx}
             /\ (req[r].pc = "query" /\ Answers(r)) =>
                   /\ req[r].idx = SuppliedLength(r)
                   /\ InsertsOf(r)' = 0..SuppliedLength(r)
                   /\ InsertsOf(r) = 0..(SuppliedLength(r) - 1) ]_vars

\* An ingestion of two compartment reports has been acknowledged; the store's
\* clock advanced between its inserts, and its rows carry the three instants in
\* input order.
C16_Witness ==
    \E r \in Ingestions :
        /\ Succeeded(r)
        /\ InsertsOf(r) = 0..2
        /\ RowOfInsert(r, 0).timestamp < RowOfInsert(r, 1).timestamp
        /\ RowOfInsert(r, 1).timestamp < RowOfInsert(r, 2).timestamp

\* C17: the step in which the UPDATE of a Completion call for an entry executes
\* sets the entry's takenTime to the store time of that step, whether the entry was
\* taken already or not; applied to an entry already taken it leaves isTaken true
\* and replaces the takenTime of the earlier call (a different time if the clock has
\* advanced since).  takenTime changes in no other step.
C17_RecompletionOverwritesTakenTime ==
    [][ /\ \A r \in Completions : (Resumes(r, "complete", 0) /\ Answers(r)) =>
             LET s == req[r].body.scheduleId
             IN  /\ medication_schedule'[s].taken_time = <<now>>
                 /\ medication_schedule'[s].is_taken
                 /\ medication_schedule[s].is_taken =>
                       /\ medication_schedule'[s].is_taken = medication_schedule[s].is_taken
                       /\ medication_schedule[s].taken_time # <<now>> =>
                             medication_schedule'[s].taken_time # medication_schedule[s].taken_time
        /\ \A i \in DOMAIN medication_schedule :
             medication_schedule'[i].taken_time # medication_schedule[i].taken_time =>
                \E r \in Completions :
                   Resumes(r, "complete", 0) /\ Answers(r) /\ req[r].body.scheduleId = i
       ]_vars

\* Two Completion calls for entry 1 have reported success; a Schedule History
\* query between them returned the entry taken at the time of the first call, and
\* the entry now carries the later time of the second.
C17_Witness ==
    \E r, q, h \in Requests :
        /\ r # q
        /\ r \in Completions /\ q \in Completions
        /\ Succeeded(r) /\ Succeeded(q)
        /\ req[h].kind = "medhistory" /\ Succeeded(h)
        /\ \E i \in DOMAIN req[h].res.data :
              /\ req[h].res.data[i].id = 1
              /\ req[h].res.data[i].is_taken
              /\ req[h].res.data[i].taken_time = <<0>>
        /\ medication_schedule[1].is_taken
        /\ medication_schedule[1].taken_time = <<HistoryHours>>

\* C18: the step in which the UPDATE of a Completion call for scheduleId s executes
\* leaves every reading and every compartment row as it was, leaves every schedule
\* entry other than s as it was, adds and removes no entry, and changes no field
\* of entry s but isTaken and takenTime; a Completion call changes nothing in any
\* other of its steps.
C18_CompletionChangesOnlyItsEntry ==
    [][ \A r \in Requests :
          (req[r].kind = "complete" /\ req'[r] # req[r]) =>
             LET s == req[r].body.scheduleId
             IN  /\ sensor_logs' = sensor_logs
                 /\ compartment_status' = compartment_status
                 /\ DOMAIN medication_schedule' = DOMAIN medication_schedule
                 /\ \A i \in DOMAIN medication_schedule :
                       IF i = s /\ Resumes(r, "complete", 0) /\ Answers(r)
                       THEN medication_schedule'[i] =
                               [medication_schedule[i] EXCEPT
                                   !.is_taken = medication_schedule'[i].is_taken,
                                   !.taken_time = medication_schedule'[i].taken_time]
                       ELSE medication_schedule'[i] = medication_schedule[i] ]_vars

\* A Completion call for entry 1 has reported success on a store that holds a
\* reading and compartment rows; entry 1 is taken and keeps its box and its
\* scheduled time, and the other entries are as they were seeded.
C18_Witness ==
    \E r \in Completions :
        /\ Succeeded(r)
        /\ req[r].body.scheduleId = 1
        /\ sensor_logs # {}
        /\ compartment_status # {}
        /\ medication_schedule[1].is_taken
        /\ medication_schedule[1].box_id = SeedSchedule[1].box_id
        /\ medication_schedule[1].scheduled_time = SeedSchedule[1].scheduled_time
        /\ \A i \in DOMAIN medication_schedule \ {1} :
              medication_schedule[i] = SeedSchedule[i]

\* The requests of the four query handlers.
Queries ==
    { r \in Requests : req[r].kind \in {"latest", "history", "schedule", "medhistory"} }

\* C19: no step of a State, History, Schedule or Schedule History query, whether it
\* ends in the success response or in a failure, changes, adds or removes a
\* reading, a compartment row or a schedule entry; and no step of any handler
\* removes or changes a reading or a compartment row once stored: the two logs
\* only grow.
C19_QueriesAreReadOnly ==
    [][ /\ \A r \in Queries : req'[r] # req[r] => store' = store
        /\ (\E r \in Requests : req[r].pc = "idle" /\ req'[r].kind \in
                {"latest", "history", "schedule", "medhistory"}) => store' = store
        /\ sensor_logs \subseteq sensor_logs'
        /\ compartment_status \subseteq compartment_status' ]_vars

\* A History Query later than 24 hours after an acknowledged ingestion has
\* answered no reading, and the reading and the two compartment rows of the
\* ingestion are in the store as they were inserted.
C19_Witness ==
    \E r \in Queries : \E q \in Ingestions :
        /\ Succeeded(r)
        /\ req[r].kind = "history"
        /\ Len(req[r].res.data) = 0
        /\ now > HistoryHours
        /\ Succeeded(q)
        /\ \E x \in ReadingsOf(q) : x.box_id = req[r].body.boxId /\ x.timestamp = 0
        /\ Cardinality(CompartmentsOf(q)) = 2

\* The ingestions that have stored their reading and not yet all their rows.
HalfDone == { q \in Ingestions : req[q].pc = "query" /\ req[q].idx >= 1 }

\* The rows of request q in a sequence of rows.
RowsFrom(s, q) == { i \in DOMAIN s : s[i].req = q }

\* C20: an ingestion with N >= 1 compartment reports stores its reading in a step
\* of its own, which stores no compartment row and leaves the request running;
\* while it runs, its reading and the compartment rows inserted so far, fewer than
\* N, are in the tables, and the statement awaited by any other request, a State
\* Query or another ingestion, may execute before its next insert; a State Query
\* whose compartment query executes then returns only the rows inserted so far.
C20_IngestionNotAtomic ==
    /\ [](\A q \in HalfDone :
            /\ Cardinality(ReadingsOf(q)) = 1
            /\ Cardinality(CompartmentsOf(q)) = req[q].idx - 1
            /\ Cardinality(CompartmentsOf(q)) < SuppliedLength(q)
            /\ \A r \in Requests \ {q} :
                  /\ InFlight(r, "latest", 0) => ENABLED LatestSensor(r)
                  /\ InFlight(r, "latest", 1) => ENABLED LatestCompartments(r)
                  /\ InFlight(r, "ingest", 0) => ENABLED IngestReading(r)
                  /\ r \in HalfDone => ENABLED IngestCompartment(r))
    /\ [][ /\ \A q \in Ingestions :
               (Resumes(q, "ingest", 0) /\ SuppliedLength(q) >= 1
                   /\ sensor_logs' # sensor_logs) =>
                  /\ compartment_status' = compartment_status
                  /\ \/ q \in HalfDone'
                     \/ FailedWith(q, "TypeError")'
          /\ \A r \in Requests : (Resumes(r, "latest", 1) /\ Answers(r)) =>
               \A q \in HalfDone :
                  /\ Cardinality(RowsFrom(req'[r].res.compartments, q)) <= req[q].idx - 1
                  /\ Cardinality(RowsFrom(req'[r].res.compartments, q)) < SuppliedLength(q)
       ]_vars

\* A State Query for box1 has answered the reading of an ingestion of two
\* compartment reports with fewer than two of its compartment rows; that ingestion
\* has since been acknowledged, and a compartment row of another ingestion for
\* box1 lies between its two rows in store time.
C20_Witness ==
    \E r \in Requests : \E q, p \in Ingestions :
        /\ q # p
        /\ req[r].kind = "latest" /\ Succeeded(r)
        /\ req[r].res.sensor \in ReadingsOf(q)
        /\ Cardinality(RowsFrom(req[r].res.compartments, q)) < SuppliedLength(q)
        /\ Succeeded(q) /\ SuppliedLength(q) = 2
        /\ req[p].body.boxId = req[q].body.boxId
        /\ \E x1, x2 \in CompartmentsOf(q) : \E y \in CompartmentsOf(p) :
              x1.timestamp < y.timestamp /\ y.timestamp < x2.timestamp

====
